---- MODULE Spec2Model ----
(***************************************************************************)
(* Resource detection provider of the resourcedetection processor          *)
(* (processor/resourcedetectionprocessor/internal/resourcedetection.go).   *)
(*                                                                         *)
(* A ResourceProvider holds an ordered slice of detectors, an allow-list    *)
(* of attribute names and a sync.Once.  Get runs detectResource under the  *)
(* Once and returns the fields of p.detectedResource.  pcommon.Map is an   *)
(* insertion-ordered slice of key/value pairs and is modelled as a         *)
(* sequence of records [key, val]; pcommon.Resource is a handle on such a  *)
(* map and is modelled as a reference to the cell that holds it.           *)
(***************************************************************************)
EXTENDS Integers, Sequences, FiniteSets, TLC

(* ---- bounds ----------------------------------------------------------- *)

\* goroutines that call Get on the one provider
NumCallers == 2

\* largest number of detectors the provider is configured with
MaxDetectors == 2

\* the longest timeout, in ticks of the clock
MaxTimeout == 1

Callers == 1..NumCallers

\* attribute names detectors may produce
Keys == {"a", "b"}

\* schema URLs detectors may report
URLs == {"", "v1", "v2"}

(* ---- values ----------------------------------------------------------- *)

\* the zero pcommon.Resource (no underlying storage)
NilRef == "nil"

\* the Resource created by pcommon.NewResource() in detectResource
AccRef == "acc"

NilErr == "nil"

Attr(k, v) == [key |-> k, val |-> v]

KeySeq(am) == [i \in 1..Len(am) |-> am[i].key]

KeySet(am) == {am[i].key : i \in 1..Len(am)}

Range(s) == {s[i] : i \in 1..Len(s)}

\* pcommon.Map.Get: found flag
Found(am, k) == k \in KeySet(am)

\* pcommon.Map.Get: value of key k (used only when Found)
ValueOf(am, k) == am[CHOOSE i \in 1..Len(am) : am[i].key = k].val

\* pcommon.Map.PutEmpty followed by Value.CopyTo: an existing entry is
\* overwritten in place, a new one is appended
Put(am, k, v) ==
  IF Found(am, k)
    THEN [i \in 1..Len(am) |-> IF am[i].key = k THEN Attr(k, v) ELSE am[i]]
    ELSE Append(am, Attr(k, v))

(* ---- pure functions of the package ------------------------------------ *)

\* MergeSchemaURL with the last branch returning the new URL
MergeSchemaURLLastWins(currentSchemaURL, newSchemaURL) ==
  IF newSchemaURL = "" THEN currentSchemaURL ELSE newSchemaURL

MergeSchemaURL(currentSchemaURL, newSchemaURL) ==
  IF currentSchemaURL = "" THEN newSchemaURL
  ELSE IF newSchemaURL = "" THEN currentSchemaURL
  ELSE IF currentSchemaURL = newSchemaURL THEN currentSchemaURL
  ELSE currentSchemaURL

\* IsEmptyResource taking a single attribute for none
IsEmptyResourceOffByOne(res) == Len(res) <= 1

IsEmptyResource(res) == Len(res) = 0

\* the callback of MergeResource with the overrideTo test inverted
MergeAttributeInverted(toAttr, k, v, overrideTo) ==
  IF ~overrideTo
    THEN Put(toAttr, k, v)
    ELSE IF ~Found(toAttr, k) THEN Put(toAttr, k, v) ELSE toAttr

\* the callback MergeResource passes to from.Attributes().Range
MergeAttribute(toAttr, k, v, overrideTo) ==
  IF overrideTo
    THEN Put(toAttr, k, v)
    ELSE IF ~Found(toAttr, k) THEN Put(toAttr, k, v) ELSE toAttr

RECURSIVE MergeRange(_, _, _, _)
MergeRange(toAttr, from, i, overrideTo) ==
  IF i > Len(from) THEN toAttr
  ELSE MergeRange(MergeAttribute(toAttr, from[i].key, from[i].val, overrideTo),
                  from, i + 1, overrideTo)

\* MergeResource with the overrideTo test lost
MergeResourceOverriding(to, from, overrideTo) ==
  IF IsEmptyResource(from) THEN to ELSE MergeRange(to, from, 1, TRUE)

\* the value of `to` after MergeResource(to, from, overrideTo)
MergeResource(to, from, overrideTo) ==
  IF IsEmptyResource(from) THEN to ELSE MergeRange(to, from, 1, overrideTo)

\* what am.RemoveIf leaves in the map
RemoveIfNotKept(am, attributesToKeep) ==
  SelectSeq(am, LAMBDA e : e.key \in attributesToKeep)

\* filterAttributes with the test of the callback inverted
filterAttributesInverted(am, attributesToKeep) ==
  IF Cardinality(attributesToKeep) > 0
    THEN [am      |-> SelectSeq(am, LAMBDA e : e.key \notin attributesToKeep),
          dropped |-> KeySeq(SelectSeq(am, LAMBDA e : e.key \in attributesToKeep))]
    ELSE [am |-> am, dropped |-> <<>>]

\* filterAttributes without the test for an empty allow-list
filterAttributesUnguarded(am, attributesToKeep) ==
  [am      |-> RemoveIfNotKept(am, attributesToKeep),
   dropped |-> KeySeq(SelectSeq(am, LAMBDA e : e.key \notin attributesToKeep))]

\* filterAttributes: the map as it is left, and the returned slice of
\* dropped keys (nil when the allow-list is empty)
filterAttributes(am, attributesToKeep) ==
  IF Cardinality(attributesToKeep) > 0
    THEN [am      |-> RemoveIfNotKept(am, attributesToKeep),
          dropped |-> KeySeq(SelectSeq(am, LAMBDA e : e.key \notin attributesToKeep))]
    ELSE [am |-> am, dropped |-> <<>>]

\* the set CreateResourceProvider builds from its attributes argument
AttributesToKeep(attributes) == Range(attributes)

(* ---- attribute values and their plain form ---------------------------- *)

\* a pcommon.Value: its ValueType, its content when it is a scalar (as
\* text), its elements when it is a Slice and its entries when it is a Map
ScalarValue(type, scalar) ==
  [type |-> type, scalar |-> scalar, items |-> <<>>, entries |-> <<>>]

SliceValue(items) ==
  [type |-> "Slice", scalar |-> "", items |-> items, entries |-> <<>>]

MapValue(entries) ==
  [type |-> "Map", scalar |-> "", items |-> <<>>, entries |-> entries]

\* a Go interface{} value: its dynamic type, its content when it is a scalar,
\* its elements when it is a []interface{} and its key/value pairs when it is
\* a map[string]interface{}
PlainScalar(go, scalar) ==
  [go |-> go, scalar |-> scalar, items |-> <<>>, fields |-> {}]

PlainSlice(items) ==
  [go |-> "[]interface{}", scalar |-> "", items |-> items, fields |-> {}]

PlainMap(fields) ==
  [go |-> "map[string]interface{}", scalar |-> "", items |-> <<>>, fields |-> fields]

\* the untyped nil
PlainNil == PlainScalar("nil", "")

RECURSIVE UnwrapAttribute(_)
RECURSIVE getSerializableArray(_)
RECURSIVE AttributesToMap(_)

\* UnwrapAttribute without the case for ValueTypeDouble
UnwrapAttributeNoDouble(v) ==
  CASE v.type = "Bool"  -> PlainScalar("bool", v.scalar)
    [] v.type = "Int"   -> PlainScalar("int64", v.scalar)
    [] v.type = "Str"   -> PlainScalar("string", v.scalar)
    [] v.type = "Slice" -> PlainSlice(getSerializableArray(v.items))
    [] v.type = "Map"   -> PlainMap(AttributesToMap(v.entries))
    [] OTHER            -> PlainNil

UnwrapAttribute(v) ==
  CASE v.type = "Bool"   -> PlainScalar("bool", v.scalar)
    [] v.type = "Int"    -> PlainScalar("int64", v.scalar)
    [] v.type = "Double" -> PlainScalar("float64", v.scalar)
    [] v.type = "Str"    -> PlainScalar("string", v.scalar)
    [] v.type = "Slice"  -> PlainSlice(getSerializableArray(v.items))
    [] v.type = "Map"    -> PlainMap(AttributesToMap(v.entries))
    [] OTHER             -> PlainNil

\* the elements are appended in order to a slice that starts nil
getSerializableArray(inArr) ==
  [i \in 1..Len(inArr) |-> UnwrapAttribute(inArr[i])]

\* mp[k] = UnwrapAttribute(v) for every entry in order: the last entry of a
\* key is the one that stays
AttributesToMap(am) ==
  { Attr(am[i].key, UnwrapAttribute(am[i].val)) :
      i \in {j \in 1..Len(am) : \A l \in (j + 1)..Len(am) : am[l].key # am[j].key} }

(* ---- detectors (external collaborators) -------------------------------- *)

\* attribute maps detector d may return: every value it produces is tagged
\* with d, so that the origin of a merged value is visible
DetectorMaps(d) ==
  { <<>>, <<Attr("a", d)>>, <<Attr("b", d)>>, <<Attr("a", d), Attr("b", d)>> }

\* what Detect of detector d may return: (resource, schemaURL, err); a
\* failing detector may still hand back a resource and a schema URL
Outcomes(d) ==
  [err : {FALSE}, resource : DetectorMaps(d), schemaURL : URLs]
    \cup [err : {TRUE},
          resource : {<<>>, <<Attr("a", d), Attr("b", d)>>},
          schemaURL : {"", "v2"}]

\* the attribute lists CreateResourceProvider may be given
AttributeLists ==
  {<<>>} \cup {<<k>> : k \in Keys} \cup {<<k1, k2>> : k1 \in Keys, k2 \in Keys}

(* ---- contexts ---------------------------------------------------------- *)

\* time.Duration values
Durations == 0..MaxTimeout

\* the client argument of Get: an http.Client with its Timeout field
HTTPClient(d) == [Timeout |-> d]

\* what a caller may pass to Get next to its own context
GetArgs == [client : {HTTPClient(d) : d \in Durations}]

\* the ctx variable before once.Do has run the function
NoContext == [parent |-> 0, timed |-> FALSE, deadline |-> 0, since |-> 0]

\* a derived context that only its parent can end
WithoutTimeout(parent, d, now) ==
  [parent |-> parent, timed |-> FALSE, deadline |-> now + d, since |-> now]

\* context.WithTimeout(parent, d) called at time now: the context of caller
\* parent with the deadline now + d; since notes when it was derived
WithTimeout(parent, d, now) ==
  [parent |-> parent, timed |-> TRUE, deadline |-> now + d, since |-> now]

(* ---- state ------------------------------------------------------------ *)

VARIABLES
  detectors,          \* p.detectors: the configured detectors, in order
  attributesToKeep,   \* p.attributesToKeep
  once,               \* p.once: "idle", "running" (f in flight) or "done"
  detectedResource,   \* p.detectedResource: <<>> (nil) or <<resourceResult>>
  res,                \* attributes of the Resource made by detectResource
  mergedSchemaURL,    \* local of detectResource
  idx,                \* detectors the loop of detectResource is done with
  droppedAttributes,  \* local of detectResource
  pc,                 \* where each caller of Get is
  ret,                \* what Get returned to each caller
  calls,              \* call counter of each detector's Detect
  results,            \* what each Detect call returned, in call order
  merged,             \* the accumulator as it was when the loop ended
  modified,           \* callers that wrote to the Resource Get gave them
  log,                \* the records written to p.logger, in order
  timeout,            \* p.timeout
  args,               \* the client each caller passes to Get
  cancelled,          \* the callers whose own context has been cancelled
  clock,              \* the time, in ticks
  ctx,                \* the ctx of the function given to once.Do
  runner,             \* the caller whose once.Do ran the function, 0 if none
  passed,             \* the context each Detect call was given, in call order
  mergeCall,          \* one call of MergeResource: its arguments and position
  unwrapCall,         \* one call of UnwrapAttribute: its argument and result
  create              \* one call of CreateResourceProvider

providerVars == <<detectors, attributesToKeep, once, detectedResource, res,
                  mergedSchemaURL, idx, droppedAttributes, pc, ret, calls,
                  results, merged, modified, log,
                  timeout, args, cancelled, clock, ctx, runner, passed>>

\* the timeout, the arguments of Get and the contexts
ctxVars == <<timeout, args, cancelled, clock, ctx, runner, passed>>

\* the state of the calls of the package functions outside a provider
callVars == <<mergeCall, unwrapCall, create>>

vars == <<providerVars, callVars>>

passVars == <<res, mergedSchemaURL, idx, droppedAttributes, calls, results, merged>>

\* the fields of ResourceProvider and resourceResult, the locals of
\* detectResource and the bookkeeping of callers and Detect calls
TypeOK ==
  /\ detectors \in {[i \in 1..n |-> i] : n \in 0..MaxDetectors}
  /\ attributesToKeep \in SUBSET Keys
  /\ once \in {"idle", "running", "done"}
  /\ Len(detectedResource) \in {0, 1}
  /\ \A i \in 1..Len(detectedResource) :
       /\ detectedResource[i].resource \in {NilRef, AccRef}
       /\ detectedResource[i].schemaURL \in URLs
       /\ detectedResource[i].err = NilErr
  /\ \A i \in 1..Len(res) : res[i].key \in Keys
  /\ mergedSchemaURL \in URLs
  /\ idx \in 0..Len(detectors)
  /\ Range(droppedAttributes) \subseteq Keys
  /\ pc \in [Callers -> {"idle", "blocked", "loop", "detecting", "finished", "returned"}]
  /\ \A c \in Callers : ret[c].resource \in {NilRef, AccRef}
  /\ calls \in [1..MaxDetectors -> 0..1]
  /\ Len(results) = IF once = "idle" THEN 0 ELSE idx
  /\ \A i \in 1..Len(merged) : merged[i].key \in Keys
  /\ modified \subseteq Callers
  /\ \A i \in 1..Len(log) : log[i].level \in {"info", "warn"}
  /\ timeout \in Durations
  /\ args \in [Callers -> GetArgs]
  /\ cancelled \subseteq Callers
  /\ clock \in 0..MaxTimeout
  /\ ctx.parent \in {0} \cup Callers
  /\ runner \in {0} \cup Callers
  /\ Len(passed) = Cardinality({d \in 1..MaxDetectors : calls[d] > 0})

\* &resourceResult{}
NewResourceResult == [resource |-> NilRef, schemaURL |-> "", err |-> NilErr]

NoResult == [resource |-> NilRef, schemaURL |-> "", err |-> NilErr]

\* the attributes a Resource handle gives access to
Deref(ref) == IF ref = AccRef THEN res ELSE <<>>

\* ctx.Done() is closed: the parent was cancelled or the deadline has passed
Done(cx) == cx.parent \in cancelled \/ (cx.timed /\ clock >= cx.deadline)

Init ==
  /\ detectors \in {[i \in 1..n |-> i] : n \in 0..MaxDetectors}
  /\ attributesToKeep \in {AttributesToKeep(attributes) : attributes \in AttributeLists}
  /\ once = "idle"
  /\ detectedResource = <<>>
  /\ res = <<>>
  /\ mergedSchemaURL = ""
  /\ idx = 0
  /\ droppedAttributes = <<>>
  /\ pc = [c \in Callers |-> "idle"]
  /\ ret = [c \in Callers |-> NoResult]
  /\ calls = [d \in 1..MaxDetectors |-> 0]
  /\ results = <<>>
  /\ merged = <<>>
  /\ modified = {}
  /\ log = <<>>
  /\ timeout = MaxTimeout
  /\ args = [c \in Callers |-> [client |-> HTTPClient(MaxTimeout)]]
  /\ cancelled = {}
  /\ clock = 0
  /\ ctx = NoContext
  /\ runner = 0
  /\ passed = <<>>
  /\ mergeCall = <<>>
  /\ unwrapCall = <<>>
  /\ create = <<>>

(* ---- the logger ------------------------------------------------------- *)

\* a record of p.logger: level, message, and the field it carries (the error
\* of a detector, named by the detector; the resource in plain form; the
\* dropped keys); made is the number of detectors Detect was called on so far
LogRecord(level, msg, detector, resource, keys) ==
  [level |-> level, msg |-> msg, detector |-> detector, resource |-> resource,
   keys |-> keys, made |-> Cardinality({d \in 1..MaxDetectors : calls[d] > 0})]

BeganDetecting == "began detecting resource information"

FailedToDetect == "failed to detect resource"

DetectedResource == "detected resource information"

DroppedResource == "dropped resource information"

\* the attributes of the accumulator as pcommon values
IntValues(am) ==
  [i \in 1..Len(am) |-> Attr(am[i].key, ScalarValue("Int", ToString(am[i].val)))]

\* the records at the end of detectResource with the test on the dropped
\* keys lost
FinishLogAlwaysDropped(am, dropped) ==
  << LogRecord("info", DetectedResource, 0, AttributesToMap(IntValues(am)), <<>>),
     LogRecord("info", DroppedResource, 0, {}, dropped) >>

\* the records detectResource writes after filterAttributes
FinishLog(am, dropped) ==
  << LogRecord("info", DetectedResource, 0, AttributesToMap(IntValues(am)), <<>>) >>
    \o (IF Len(dropped) > 0
          THEN << LogRecord("info", DroppedResource, 0, {}, dropped) >>
          ELSE << >>)

(* ---- sync.Once -------------------------------------------------------- *)

\* a Once that lets a second caller in while f is in flight
OnceNotStartedOrRunning == once # "done"

\* a gate that runs f again when every detector of the last pass failed
OnceNotStartedOrAllFailed ==
  \/ once = "idle"
  \/ (once = "done" /\ results # <<>> /\ \A i \in 1..Len(results) : results[i].err)

\* once.Do runs f only for the first caller
OnceNotStarted == once = "idle"

\* a Once that lets callers through as soon as f has started
OnceStarted == once # "idle"

\* once.Do returns only when f has returned
OnceCompleted == once = "done"

(* ---- Get -------------------------------------------------------------- *)

\* Get, first caller: once.Do runs f, which derives the context and enters
\* detectResource up to the head of the loop
GetDetect(c) ==
  /\ pc[c] = "idle"
  /\ OnceNotStarted
  /\ once' = "running"
  /\ detectedResource' = <<NewResourceResult>>
  /\ res' = <<>>
  /\ mergedSchemaURL' = ""
  /\ idx' = 0
  /\ pc' = [pc EXCEPT ![c] = "loop"]
  /\ log' = Append(log, LogRecord("info", BeganDetecting, 0, {}, <<>>))
  /\ ctx' = WithTimeout(c, args[c].client.Timeout, clock)
  /\ runner' = c
  /\ UNCHANGED <<detectors, attributesToKeep, droppedAttributes, ret, calls,
                 results, merged, modified>>
  /\ UNCHANGED <<timeout, args, cancelled, clock, passed>>
  /\ UNCHANGED callVars

\* Get, a caller that finds f in flight: once.Do blocks
GetBlock(c) ==
  /\ pc[c] = "idle"
  /\ once = "running"
  /\ pc' = [pc EXCEPT ![c] = "blocked"]
  /\ UNCHANGED <<detectors, attributesToKeep, once, detectedResource, ret,
                 modified, log>>
  /\ UNCHANGED ctxVars
  /\ UNCHANGED passVars
  /\ UNCHANGED callVars

\* a loop that walks p.detectors from the end
NextDetectorBackwards == detectors[Len(detectors) - idx]

\* the detector the loop of detectResource is at
NextDetector == detectors[idx + 1]

\* the loop of detectResource calls Detect of the next detector
DetectCall(c) ==
  /\ pc[c] = "loop"
  /\ idx < Len(detectors)
  /\ calls' = [calls EXCEPT ![NextDetector] = @ + 1]
  /\ pc' = [pc EXCEPT ![c] = "detecting"]
  /\ passed' = Append(passed, ctx)
  /\ UNCHANGED <<detectors, attributesToKeep, once, detectedResource, res,
                 mergedSchemaURL, idx, droppedAttributes, ret, results, merged,
                 modified, log>>
  /\ UNCHANGED <<timeout, args, cancelled, clock, ctx, runner>>
  /\ UNCHANGED callVars

\* the err test of the loop lost
SucceededAlways(out) == TRUE

\* err == nil on return from Detect
Succeeded(out) == ~out.err

\* Detect returns; on success its schema URL and resource are merged
DetectReturn(c) ==
  /\ pc[c] = "detecting"
  /\ \E out \in Outcomes(NextDetector) :
       /\ results' = Append(results, out)
       /\ IF Succeeded(out)
            THEN /\ mergedSchemaURL' = MergeSchemaURL(mergedSchemaURL, out.schemaURL)
                 /\ res' = MergeResource(res, out.resource, FALSE)
                 /\ log' = log
            ELSE /\ UNCHANGED <<mergedSchemaURL, res>>
                 /\ log' = Append(log, LogRecord("warn", FailedToDetect,
                                                 NextDetector, {}, <<>>))
  /\ idx' = idx + 1
  /\ pc' = [pc EXCEPT ![c] = "loop"]
  /\ UNCHANGED <<detectors, attributesToKeep, once, detectedResource,
                 droppedAttributes, ret, calls, merged, modified>>
  /\ UNCHANGED ctxVars
  /\ UNCHANGED callVars

\* detectResource reporting detector failures through err
StoreResultWithErr(cell, resource, schemaURL, rs) ==
  [cell EXCEPT !.resource = resource, !.schemaURL = schemaURL,
               !.err = IF \E i \in 1..Len(rs) : rs[i].err THEN "error" ELSE NilErr]

\* the two assignments that end detectResource; err is left as it is
StoreResult(cell, resource, schemaURL, rs) ==
  [cell EXCEPT !.resource = resource, !.schemaURL = schemaURL]

\* the loop is over: filter, store the result, f returns and the Once is done
DetectFinish(c) ==
  /\ pc[c] = "loop"
  /\ idx = Len(detectors)
  /\ merged' = res
  /\ res' = filterAttributes(res, attributesToKeep).am
  /\ droppedAttributes' = filterAttributes(res, attributesToKeep).dropped
  /\ detectedResource' =
       <<StoreResult(detectedResource[1], AccRef, mergedSchemaURL, results)>>
  /\ once' = "done"
  /\ pc' = [pc EXCEPT ![c] = "finished"]
  /\ log' = log \o FinishLog(filterAttributes(res, attributesToKeep).am,
                              filterAttributes(res, attributesToKeep).dropped)
  /\ UNCHANGED <<detectors, attributesToKeep, mergedSchemaURL, idx, ret, calls,
                 results, modified>>
  /\ UNCHANGED ctxVars
  /\ UNCHANGED callVars

\* once.Do has returned: Get returns the fields of p.detectedResource
GetReturn(c) ==
  /\ pc[c] \in {"idle", "blocked", "finished"}
  /\ OnceCompleted
  /\ ret' = [ret EXCEPT ![c] = detectedResource[1]]
  /\ pc' = [pc EXCEPT ![c] = "returned"]
  /\ UNCHANGED <<detectors, attributesToKeep, once, detectedResource, modified,
                 log>>
  /\ UNCHANGED ctxVars
  /\ UNCHANGED passVars
  /\ UNCHANGED callVars

\* a caller writes an attribute into the Resource it got from Get
Modify(c) ==
  /\ pc[c] = "returned"
  /\ ret[c].resource = AccRef
  /\ c \notin modified
  /\ \E k \in Keys : res' = Put(res, k, 0)
  /\ modified' = modified \cup {c}
  /\ UNCHANGED <<detectors, attributesToKeep, once, detectedResource,
                 mergedSchemaURL, idx, droppedAttributes, pc, ret, calls,
                 results, merged, log>>
  /\ UNCHANGED ctxVars
  /\ UNCHANGED callVars

Next ==
  \E c \in Callers :
    \/ GetDetect(c)
    \/ GetBlock(c)
    \/ DetectCall(c)
    \/ DetectReturn(c)
    \/ DetectFinish(c)
    \/ GetReturn(c)

Spec == Init /\ [][Next]_vars

NextWriters == Next \/ \E c \in Callers : Modify(c)

\* as Spec, with callers that write to the Resource they received
SpecWriters == Init /\ [][NextWriters]_vars

(* ---- Get under timeouts and cancellation ------------------------------ *)

\* a provider made with any timeout and an empty allow-list; every caller
\* has its own client
InitCtx ==
  /\ detectors \in {[i \in 1..n |-> i] : n \in 0..MaxDetectors}
  /\ attributesToKeep = {}
  /\ once = "idle"
  /\ detectedResource = <<>>
  /\ res = <<>>
  /\ mergedSchemaURL = ""
  /\ idx = 0
  /\ droppedAttributes = <<>>
  /\ pc = [c \in Callers |-> "idle"]
  /\ ret = [c \in Callers |-> NoResult]
  /\ calls = [d \in 1..MaxDetectors |-> 0]
  /\ results = <<>>
  /\ merged = <<>>
  /\ modified = {}
  /\ log = <<>>
  /\ timeout \in Durations
  /\ args \in [Callers -> GetArgs]
  /\ cancelled = {}
  /\ clock = 0
  /\ ctx = NoContext
  /\ runner = 0
  /\ passed = <<>>
  /\ mergeCall = <<>>
  /\ unwrapCall = <<>>
  /\ create = <<>>

\* time passes; it is followed while the pass runs under a deadline that
\* has not been reached
Tick ==
  /\ once = "running"
  /\ ctx.timed
  /\ clock < ctx.deadline
  /\ clock' = clock + 1
  /\ UNCHANGED <<detectors, attributesToKeep, once, detectedResource, pc, ret,
                 modified, log>>
  /\ UNCHANGED <<timeout, args, cancelled, ctx, runner, passed>>
  /\ UNCHANGED passVars
  /\ UNCHANGED callVars

\* the context a caller gave or will give to Get is cancelled
Cancel(c) ==
  /\ c \notin cancelled
  /\ pc[c] # "returned"
  /\ cancelled' = cancelled \cup {c}
  /\ UNCHANGED <<detectors, attributesToKeep, once, detectedResource, pc, ret,
                 modified, log>>
  /\ UNCHANGED <<timeout, args, clock, ctx, runner, passed>>
  /\ UNCHANGED passVars
  /\ UNCHANGED callVars

\* Detect returns because the context it was given is done
DetectCancelled(c) == Done(ctx) /\ DetectReturn(c)

NextCtx ==
  \/ Next
  \/ Tick
  \/ \E c \in Callers : Cancel(c)

\* every goroutine keeps running, time passes, and a detector returns once
\* its context is done; no detector is required to return before that
Fairness ==
  /\ WF_vars(Tick)
  /\ \A c \in Callers :
       /\ WF_vars(DetectCall(c))
       /\ WF_vars(DetectCancelled(c))
       /\ WF_vars(DetectFinish(c))
       /\ WF_vars(GetReturn(c))

SpecCtx == InitCtx /\ [][NextCtx]_vars /\ Fairness

(* ---- MergeResource called on its own ----------------------------------- *)

\* no provider is in use: the package functions are called directly
NoProvider ==
  /\ detectors = <<>>
  /\ attributesToKeep = {}
  /\ once = "idle"
  /\ detectedResource = <<>>
  /\ res = <<>>
  /\ mergedSchemaURL = ""
  /\ idx = 0
  /\ droppedAttributes = <<>>
  /\ pc = [c \in Callers |-> "idle"]
  /\ ret = [c \in Callers |-> NoResult]
  /\ calls = [d \in 1..MaxDetectors |-> 0]
  /\ results = <<>>
  /\ merged = <<>>
  /\ modified = {}
  /\ log = <<>>
  /\ timeout = 0
  /\ args = [c \in Callers |-> [client |-> HTTPClient(0)]]
  /\ cancelled = {}
  /\ clock = 0
  /\ ctx = NoContext
  /\ runner = 0
  /\ passed = <<>>

\* attribute maps MergeResource is called with: the keys in either order,
\* each key once
ResourceMaps ==
  {<<>>}
    \cup {<<Attr(k, v)>> : k \in Keys, v \in {1, 2}}
    \cup {m \in {<<Attr(k1, v1), Attr(k2, v2)>> :
                   k1 \in Keys, k2 \in Keys, v1 \in {1, 2}, v2 \in {1, 2}} :
            m[1].key # m[2].key}

InitMerge ==
  /\ NoProvider
  /\ unwrapCall = <<>>
  /\ create = <<>>
  /\ \E to \in ResourceMaps, from \in ResourceMaps, overrideTo \in BOOLEAN :
       mergeCall = <<[to |-> to, from |-> from, overrideTo |-> overrideTo,
                      old |-> to, returned |-> FALSE]>>

\* MergeResource(to, from, overrideTo) runs: `to` is written in place, `from`
\* is only read
MergeResourceCall ==
  /\ Len(mergeCall) = 1
  /\ ~mergeCall[1].returned
  /\ mergeCall' =
       <<[mergeCall[1] EXCEPT
            !.to = MergeResource(mergeCall[1].to, mergeCall[1].from,
                                 mergeCall[1].overrideTo),
            !.returned = TRUE]>>
  /\ UNCHANGED <<providerVars, unwrapCall, create>>

NextMerge == MergeResourceCall

SpecMerge == InitMerge /\ [][NextMerge]_vars

(* ---- UnwrapAttribute called on its own --------------------------------- *)

\* values without structure; Bytes and Empty have no case in UnwrapAttribute
Scalars ==
  { ScalarValue("Bool", "true"), ScalarValue("Bool", "false"),
    ScalarValue("Int", "1"), ScalarValue("Int", "-2"),
    ScalarValue("Double", "1.5"), ScalarValue("Str", ""), ScalarValue("Str", "1"),
    ScalarValue("Bytes", "1"), ScalarValue("Empty", "") }

Elements ==
  { ScalarValue("Bool", "true"), ScalarValue("Int", "1"),
    ScalarValue("Double", "1.5"), ScalarValue("Str", "1"), ScalarValue("Empty", "") }

\* slices of at most two values of S
SlicesOf(S) ==
  {<<>>} \cup {<<x>> : x \in S} \cup {<<x, y>> : x \in S, y \in S}

\* maps of the keys to values of S, in either order of insertion
MapsOf(S) ==
  {<<>>}
    \cup {<<Attr(k, x)>> : k \in Keys, x \in S}
    \cup {m \in {<<Attr(k1, x), Attr(k2, y)>> :
                   k1 \in Keys, k2 \in Keys, x \in S, y \in S} :
            m[1].key # m[2].key}

\* slices and maps of scalars
Structures ==
  {SliceValue(s) : s \in SlicesOf(Elements)}
    \cup {MapValue(m) : m \in MapsOf(Elements)}

\* slices and maps that hold slices and maps
Nested ==
  {SliceValue(<<x>>) : x \in Structures}
    \cup {SliceValue(<<x, ScalarValue("Int", "1")>>) : x \in Structures}
    \cup {MapValue(<<Attr("a", x)>>) : x \in Structures}
    \cup {MapValue(<<Attr("b", ScalarValue("Double", "1.5")), Attr("a", x)>>) :
            x \in Structures}

AttributeValues == Scalars \cup Structures \cup Nested

InitUnwrap ==
  /\ NoProvider
  /\ mergeCall = <<>>
  /\ create = <<>>
  /\ \E v \in AttributeValues :
       unwrapCall = <<[v |-> v, out |-> PlainNil, returned |-> FALSE]>>

\* UnwrapAttribute(v) runs
UnwrapAttributeCall ==
  /\ Len(unwrapCall) = 1
  /\ ~unwrapCall[1].returned
  /\ unwrapCall' =
       <<[unwrapCall[1] EXCEPT !.out = UnwrapAttribute(unwrapCall[1].v),
                               !.returned = TRUE]>>
  /\ UNCHANGED <<providerVars, mergeCall, create>>

NextUnwrap == UnwrapAttributeCall

SpecUnwrap == InitUnwrap /\ [][NextUnwrap]_vars

(* ---- CreateResourceProvider -------------------------------------------- *)

\* detector types that may be requested
DetectorTypes == {"env", "gcp", "ec2"}

\* what the registry f.detectors may hold for a type: no entry, a factory
\* that builds a detector, or a factory that returns an error
Registries == [DetectorTypes -> {"absent", "builds", "fails"}]

\* the detectorTypes arguments: up to three types, repetitions allowed
TypeLists ==
  {<<>>}
    \cup {<<t>> : t \in DetectorTypes}
    \cup {<<t1, t2>> : t1 \in DetectorTypes, t2 \in DetectorTypes}
    \cup {<<t1, t2, t3>> :
            t1 \in DetectorTypes, t2 \in DetectorTypes, t3 \in DetectorTypes}

\* detectorConfigs.GetConfigFromType(detectorType)
GetConfigFromType(detectorType) == [configOf |-> detectorType]

\* the detector a factory returns: which factory built it, from which config
DetectorFactory(registeredFor, config) ==
  [builtBy |-> registeredFor, config |-> config]

NoError == ""

InitCreate ==
  /\ NoProvider
  /\ mergeCall = <<>>
  /\ unwrapCall = <<>>
  /\ \E registry \in Registries, detectorTypes \in TypeLists,
        attributes \in {<<>>, <<"a">>, <<"b", "a">>}, d \in Durations :
       create = <<[registry      |-> registry,
                   timeout       |-> d,
                   detectorTypes |-> detectorTypes,
                   attributes    |-> attributes,
                   i             |-> 0,
                   detectors     |-> <<>>,
                   invoked       |-> <<>>,
                   err           |-> NoError,
                   at            |-> "getDetectors",
                   provider      |-> <<>>]>>

\* append with the new detector put in front
AppendDetectorInFront(built, detector) == <<detector>> \o built

\* detectors = append(detectors, detector)
AppendDetector(built, detector) == Append(built, detector)

\* the body of the loop with a failing factory skipped instead of returned
GetDetectorsIterationSkipping(cr) ==
  LET detectorType == cr.detectorTypes[cr.i + 1]
  IN  IF cr.registry[detectorType] = "absent"
        THEN [cr EXCEPT !.err = "invalid detector key", !.at = "failed"]
        ELSE IF cr.registry[detectorType] = "fails"
          THEN [cr EXCEPT !.invoked = Append(@, detectorType), !.i = @ + 1]
          ELSE [cr EXCEPT
                  !.invoked = Append(@, detectorType),
                  !.detectors =
                     AppendDetector(@, DetectorFactory(detectorType,
                                                       GetConfigFromType(detectorType))),
                  !.i = @ + 1]

\* one iteration of the loop of getDetectors, for detectorTypes[i + 1]
GetDetectorsIteration(cr) ==
  LET detectorType == cr.detectorTypes[cr.i + 1]
  IN  IF cr.registry[detectorType] = "absent"
        THEN [cr EXCEPT !.err = "invalid detector key", !.at = "failed"]
        ELSE IF cr.registry[detectorType] = "fails"
          THEN [cr EXCEPT !.invoked = Append(@, detectorType),
                          !.err = "failed creating detector type",
                          !.at = "failed"]
          ELSE [cr EXCEPT
                  !.invoked = Append(@, detectorType),
                  !.detectors =
                     AppendDetector(@, DetectorFactory(detectorType,
                                                       GetConfigFromType(detectorType))),
                  !.i = @ + 1]

\* getDetectors handles the next requested type; on an error
\* CreateResourceProvider returns (nil, err)
GetDetectorsStep ==
  /\ Len(create) = 1
  /\ create[1].at = "getDetectors"
  /\ create[1].i < Len(create[1].detectorTypes)
  /\ create' = <<GetDetectorsIteration(create[1])>>
  /\ UNCHANGED <<providerVars, mergeCall, unwrapCall>>

\* NewResourceProvider(logger, timeout, attributesToKeep, detectors...)
NewResourceProvider(d, keep, built) ==
  [timeout |-> d, detectors |-> built, attributesToKeep |-> keep]

\* getDetectors returned the detectors: the provider is made and returned
CreateProvider ==
  /\ Len(create) = 1
  /\ create[1].at = "getDetectors"
  /\ create[1].i = Len(create[1].detectorTypes)
  /\ create' =
       <<[create[1] EXCEPT
            !.provider = <<NewResourceProvider(create[1].timeout,
                                               AttributesToKeep(create[1].attributes),
                                               create[1].detectors)>>,
            !.at = "created"]>>
  /\ UNCHANGED <<providerVars, mergeCall, unwrapCall>>

NextCreate == GetDetectorsStep \/ CreateProvider

SpecCreate == InitCreate /\ [][NextCreate]_vars

(* ---- properties -------------------------------------------------------- *)

Min(S) == CHOOSE x \in S : \A y \in S : x <= y

Returned(c) == pc[c] = "returned"

\* the Detect calls that have returned without error
Successful == {i \in 1..Len(results) : ~results[i].err}

\* the accumulator of the merges, before any filtering
Accumulator == IF once = "done" THEN merged ELSE res

AllDetected == \A i \in 1..Len(detectors) : calls[detectors[i]] = 1

\* C1: each detector's Detect is invoked at most once in every reachable
\* state, and exactly once in total once a Get has returned
C1_ExactlyOnce ==
  /\ \A d \in 1..MaxDetectors : calls[d] <= 1
  /\ \A d \in 1..MaxDetectors : d > Len(detectors) => calls[d] = 0
  /\ (\E c \in Callers : Returned(c)) => AllDetected

C1_Witness ==
  /\ \A c \in Callers : Returned(c)
  /\ Len(detectors) = MaxDetectors
  /\ AllDetected

\* C2: any two Get calls that have returned have returned the same
\* (resource, schemaURL, err): the same Resource handle, the same schema URL
\* and the same error
C2_SameTriple ==
  \A c1 \in Callers, c2 \in Callers :
    (Returned(c1) /\ Returned(c2)) => ret[c1] = ret[c2]

C2_Witness ==
  /\ \A c \in Callers : Returned(c) /\ ret[c].resource = AccRef
  /\ ret[1].schemaURL = "v1"
  /\ Len(res) > 0

\* C3: no Get returns before the pass has called every detector, merged every
\* successful result and filtered: a returned caller holds the handle of the
\* finished accumulator, whose keys are the allowed keys of the merge; until
\* then the cell read by Get holds no Resource, and nobody has returned
C3_NoEarlyReturn ==
  /\ \A c \in Callers :
       Returned(c) =>
         /\ once = "done"
         /\ idx = Len(detectors)
         /\ Len(results) = Len(detectors)
         /\ AllDetected
         /\ ret[c].resource = AccRef
         /\ KeySet(Deref(ret[c].resource)) =
              IF attributesToKeep = {} THEN KeySet(merged)
              ELSE KeySet(merged) \cap attributesToKeep
  /\ once = "running" =>
       /\ \A c \in Callers : ~Returned(c)
       /\ detectedResource[1].resource = NilRef

C3_Witness ==
  /\ \E c \in Callers : pc[c] = "blocked"
  /\ once = "running"
  /\ idx = 1
  /\ Len(detectors) = 2
  /\ Len(res) > 0

\* C4: for every key produced by a successful detector, the merged resource
\* (before filtering) holds the value of the earliest successful detector
\* that produces the key
C4_MergePrecedence ==
  \A k \in Keys :
    LET producers == {i \in Successful : Found(results[i].resource, k)}
    IN  producers # {} =>
          /\ Found(Accumulator, k)
          /\ ValueOf(Accumulator, k) = ValueOf(results[Min(producers)].resource, k)

C4_Witness ==
  /\ once = "done"
  /\ Len(results) = 2
  /\ Successful = {1, 2}
  /\ Found(results[1].resource, "a")
  /\ Found(results[2].resource, "a")
  /\ ValueOf(merged, "a") = 1

\* C5: a detector whose Detect fails contributes no attribute and no schema
\* URL, the detectors after it are still called, and the merged resource has
\* exactly the keys of the successful detectors, with their values
C5_FailureTolerance ==
  /\ \A j \in 1..Len(Accumulator) : Accumulator[j].val \in Successful
  /\ KeySet(Accumulator) = UNION {KeySet(results[i].resource) : i \in Successful}
  /\ mergedSchemaURL \in {""} \cup {results[i].schemaURL : i \in Successful}
  /\ once = "done" => (Len(results) = Len(detectors) /\ AllDetected)

C5_Witness ==
  /\ once = "done"
  /\ Len(results) = 2
  /\ results[1].err
  /\ Len(results[1].resource) = 2
  /\ results[1].schemaURL = "v2"
  /\ ~results[2].err
  /\ results[2].resource = <<Attr("b", 2)>>
  /\ merged = <<Attr("b", 2)>>
  /\ mergedSchemaURL = results[2].schemaURL

\* C6: with at least one detector configured the error returned by Get is
\* nil, whichever detectors failed
C6_NoErrorFromGet ==
  \A c \in Callers :
    (Returned(c) /\ Len(detectors) >= 1) => ret[c].err = NilErr

C6_Witness ==
  /\ \E c \in Callers : Returned(c) /\ ret[c].err = NilErr
  /\ Len(detectors) = 2
  /\ Successful = {}

FirstNonEmptyURL ==
  LET urls == {i \in Successful : results[i].schemaURL # ""}
  IN  IF urls = {} THEN "" ELSE results[Min(urls)].schemaURL

\* C7: the schema URL is the first non-empty schema URL, in detector order,
\* among the successful detectors (empty if there is none), during the pass
\* and in what Get returns; MergeSchemaURL(current, incoming) is incoming
\* when current is empty and current otherwise
C7_SchemaURLSticky ==
  /\ mergedSchemaURL = FirstNonEmptyURL
  /\ \A c \in Callers : Returned(c) => ret[c].schemaURL = FirstNonEmptyURL
  /\ \A cur \in URLs, inc \in URLs :
       MergeSchemaURL(cur, inc) = IF cur = "" THEN inc ELSE cur

C7_Witness ==
  /\ \E c \in Callers : Returned(c) /\ ret[c].schemaURL = "v1"
  /\ Len(results) = 2
  /\ Successful = {1, 2}
  /\ results[1].schemaURL = "v1"
  /\ results[2].schemaURL = "v2"

\* C8: with a non-empty allow-list, the resource returned by Get holds exactly
\* the merged attributes whose key is allowed, values unchanged; the dropped
\* keys are the merged keys that are not allowed, each once; nothing is
\* filtered or dropped while the detectors are still being merged
C8_FilterKeepsAllowed ==
  attributesToKeep # {} =>
    /\ \A c \in Callers :
         Returned(c) =>
           /\ Deref(ret[c].resource) =
                SelectSeq(merged, LAMBDA e : e.key \in attributesToKeep)
           /\ Range(droppedAttributes) = KeySet(merged) \ attributesToKeep
           /\ Len(droppedAttributes) = Cardinality(KeySet(merged) \ attributesToKeep)
    /\ once = "running" =>
         /\ droppedAttributes = <<>>
         /\ KeySet(res) = UNION {KeySet(results[i].resource) : i \in Successful}

C8_Witness ==
  /\ \E c \in Callers : Returned(c) /\ Deref(ret[c].resource) = <<Attr("a", 2)>>
  /\ attributesToKeep = {"a"}
  /\ merged = <<Attr("b", 1), Attr("a", 2)>>
  /\ droppedAttributes = <<"b">>

\* C9: with an empty allow-list nothing is removed: the resource returned by
\* Get is the merged accumulator and no key is reported as dropped
C9_EmptyAllowListKeepsAll ==
  attributesToKeep = {} =>
    \A c \in Callers :
      Returned(c) =>
        /\ Deref(ret[c].resource) = merged
        /\ droppedAttributes = <<>>

C9_Witness ==
  /\ attributesToKeep = {}
  /\ \E c \in Callers : Returned(c) /\ Len(Deref(ret[c].resource)) = 2
  /\ Len(merged) = 2

\* C10: what a caller writes into the Resource it received from Get is not
\* visible in the Resource of any other caller: a returned caller that wrote
\* nothing still sees the result as it was stored
C10_NoMutableAlias ==
  \A d \in Callers :
    (Returned(d) /\ d \notin modified) =>
      Deref(ret[d].resource) = filterAttributes(merged, attributesToKeep).am

\* what one call of MergeResource was given and what it left
Merged(m) == m.returned

UniqueKeys(am) == Len(am) = Cardinality(KeySet(am))

\* C18: with overrideTo, every key of from has from's value in to after the
\* call; without it, a key of from is written only if to did not hold it, and
\* the keys to held keep their value
C18_MergeResourceOverride ==
  \A n \in 1..Len(mergeCall) :
    LET m == mergeCall[n]
    IN  Merged(m) =>
          \A k \in KeySet(m.from) :
            /\ Found(m.to, k)
            /\ ValueOf(m.to, k) =
                 IF m.overrideTo \/ ~Found(m.old, k)
                   THEN ValueOf(m.from, k)
                   ELSE ValueOf(m.old, k)

C18_Witness ==
  /\ Len(mergeCall) = 1
  /\ Merged(mergeCall[1])
  /\ mergeCall[1].overrideTo
  /\ mergeCall[1].old = <<Attr("a", 1), Attr("b", 1)>>
  /\ mergeCall[1].from = <<Attr("b", 2)>>
  /\ mergeCall[1].to = <<Attr("a", 1), Attr("b", 2)>>

\* C19: MergeResource neither removes nor invents keys: the keys of to after
\* the call are its keys before and those of from, each once; a key that from
\* does not hold keeps its value; with an empty from the call changes nothing
C19_MergeResourceFrame ==
  \A n \in 1..Len(mergeCall) :
    LET m == mergeCall[n]
    IN  Merged(m) =>
          /\ KeySet(m.to) = KeySet(m.old) \cup KeySet(m.from)
          /\ UniqueKeys(m.to)
          /\ \A k \in KeySet(m.old) \ KeySet(m.from) :
               ValueOf(m.to, k) = ValueOf(m.old, k)
          /\ Len(m.from) = 0 => m.to = m.old

C19_Witness ==
  /\ Len(mergeCall) = 1
  /\ Merged(mergeCall[1])
  /\ mergeCall[1].old = <<Attr("a", 1)>>
  /\ mergeCall[1].from = <<Attr("b", 2)>>
  /\ mergeCall[1].to = <<Attr("a", 1), Attr("b", 2)>>

\* the field of key k in a plain map
FieldsOf(fields, k) == {f \in fields : f.key = k}

RECURSIVE SameShape(_, _)
\* the plain value p has the shape of the value v and the same leaves: a
\* scalar of the matching Go type with the same content, a slice of the same
\* length, a map of the same keys, and nil for a value of no supported type
SameShape(v, p) ==
  CASE v.type = "Bool"   -> p = PlainScalar("bool", v.scalar)
    [] v.type = "Int"    -> p = PlainScalar("int64", v.scalar)
    [] v.type = "Double" -> p = PlainScalar("float64", v.scalar)
    [] v.type = "Str"    -> p = PlainScalar("string", v.scalar)
    [] v.type = "Slice"  ->
         /\ p.go = "[]interface{}"
         /\ Len(p.items) = Len(v.items)
         /\ \A i \in 1..Len(v.items) : SameShape(v.items[i], p.items[i])
    [] v.type = "Map"    ->
         /\ p.go = "map[string]interface{}"
         /\ {f.key : f \in p.fields} = KeySet(v.entries)
         /\ \A i \in 1..Len(v.entries) :
              /\ Cardinality(FieldsOf(p.fields, v.entries[i].key)) = 1
              /\ \A f \in FieldsOf(p.fields, v.entries[i].key) :
                   SameShape(v.entries[i].val, f.val)
    [] OTHER             -> p = PlainNil

\* C16: UnwrapAttribute gives a plain structure of the same shape as the
\* value, with leaves equal to the value's leaves, and nil for the variants
\* it has no case for
C16_UnwrapRoundTrip ==
  \A n \in 1..Len(unwrapCall) :
    unwrapCall[n].returned => SameShape(unwrapCall[n].v, unwrapCall[n].out)

C16_Witness ==
  /\ Len(unwrapCall) = 1
  /\ unwrapCall[1].returned
  /\ unwrapCall[1].v =
       MapValue(<<Attr("b", ScalarValue("Double", "1.5")),
                  Attr("a", SliceValue(<<ScalarValue("Int", "1"),
                                         ScalarValue("Empty", "")>>))>>)
  /\ unwrapCall[1].out =
       PlainMap({Attr("b", PlainScalar("float64", "1.5")),
                 Attr("a", PlainSlice(<<PlainScalar("int64", "1"), PlainNil>>))})

\* the requested types, by position, that have no factory or a failing one
BadTypes(cr) ==
  {j \in 1..Len(cr.detectorTypes) : cr.registry[cr.detectorTypes[j]] # "builds"}

\* C13: when CreateResourceProvider succeeds, the provider has one detector
\* per requested type, the i-th being the one the factory registered for the
\* i-th requested type built from the config resolved for that type
C13_DetectorsInRequestOrder ==
  \A n \in 1..Len(create) :
    LET cr == create[n]
    IN  cr.at = "created" =>
          /\ Len(cr.provider) = 1
          /\ Len(cr.provider[1].detectors) = Len(cr.detectorTypes)
          /\ \A i \in 1..Len(cr.detectorTypes) :
               cr.provider[1].detectors[i] =
                 [builtBy |-> cr.detectorTypes[i],
                  config  |-> GetConfigFromType(cr.detectorTypes[i])]

C13_Witness ==
  /\ Len(create) = 1
  /\ create[1].at = "created"
  /\ create[1].detectorTypes = <<"gcp", "env", "gcp">>
  /\ create[1].provider[1].detectors[2].builtBy = "env"

\* C14: construction stops at the first requested type, in request order,
\* that has no factory or whose factory fails: an error and no provider are
\* returned, and no factory of a later requested type is invoked; without
\* such a type all factories are invoked in order
C14_FailFast ==
  \A n \in 1..Len(create) :
    LET cr == create[n]
        first == IF BadTypes(cr) = {} THEN Len(cr.detectorTypes) + 1
                 ELSE Min(BadTypes(cr))
    IN  /\ Len(cr.invoked) <= first
        /\ \A j \in 1..Len(cr.invoked) : cr.invoked[j] = cr.detectorTypes[j]
        /\ cr.at = "failed" =>
             /\ BadTypes(cr) # {}
             /\ cr.i + 1 = first
             /\ cr.err # NoError
             /\ cr.provider = <<>>
             /\ Len(cr.invoked) =
                  IF cr.registry[cr.detectorTypes[first]] = "absent"
                    THEN first - 1 ELSE first
        /\ cr.at = "created" => (BadTypes(cr) = {} /\ cr.err = NoError)
        /\ (cr.at = "getDetectors" /\ BadTypes(cr) # {}) => cr.i < first

C14_Witness ==
  /\ Len(create) = 1
  /\ create[1].at = "failed"
  /\ create[1].detectorTypes = <<"env", "gcp", "ec2">>
  /\ create[1].registry["env"] = "builds"
  /\ create[1].registry["gcp"] = "fails"
  /\ create[1].registry["ec2"] = "builds"
  /\ create[1].invoked = <<"env", "gcp">>
  /\ create[1].provider = <<>>

\* the detectors whose Detect has been called and has not returned yet
InFlight == {d \in 1..MaxDetectors : calls[d] > 0 /\ d > Len(results)}

\* C17: the detectors are invoked one after another in configured order:
\* at most one Detect is in flight, Detect of a detector has started only
\* when every earlier detector has been called, has returned and has been
\* merged, the i-th result is the i-th detector's own, and at the end of
\* the pass every configured detector has been invoked whatever failed
C17_SequentialInOrder ==
  /\ Cardinality(InFlight) <= 1
  /\ Cardinality(InFlight) = Cardinality({c \in Callers : pc[c] = "detecting"})
  /\ \A i \in 1..Len(detectors) :
       calls[detectors[i]] > 0 =>
         /\ Len(results) >= i - 1
         /\ \A j \in 1..(i - 1) : calls[detectors[j]] = 1
         /\ \A j \in Successful :
              j < i => KeySet(results[j].resource) \subseteq KeySet(Accumulator)
  /\ \A i \in 1..Len(results) :
       \A j \in 1..Len(results[i].resource) :
         results[i].resource[j].val = detectors[i]
  /\ once = "done" => (AllDetected /\ Len(results) = Len(detectors))

C17_Witness ==
  /\ Len(detectors) = 2
  /\ InFlight = {2}
  /\ results = << [err |-> TRUE, resource |-> <<>>, schemaURL |-> ""] >>
  /\ \E c \in Callers : pc[c] = "detecting"

\* the positions of the log holding the message msg
Records(msg) == {i \in 1..Len(log) : log[i].msg = msg}

\* the detectors whose Detect returned an error
Failed == {detectors[i] : i \in {j \in 1..Len(results) : results[j].err}}

\* C15: the log holds one 'began detecting' record written before any
\* Detect call, one warning per detector whose Detect failed and naming it,
\* one 'detected resource' record with the filtered attributes in plain
\* form written after the last Detect call, and a 'dropped' record exactly
\* when filtering removed a key
C15_LogRecords ==
  /\ once = "idle" => log = <<>>
  /\ once # "idle" =>
       /\ Records(BeganDetecting) = {1}
       /\ log[1].level = "info"
       /\ log[1].made = 0
  /\ Cardinality(Records(FailedToDetect)) = Cardinality(Failed)
  /\ \A d \in Failed :
       \E i \in Records(FailedToDetect) :
         log[i].detector = d /\ log[i].level = "warn" /\ log[i].made = d
  /\ once # "done" =>
       Records(DetectedResource) = {} /\ Records(DroppedResource) = {}
  /\ once = "done" =>
       /\ Cardinality(Records(DetectedResource)) = 1
       /\ \A i \in Records(DetectedResource) :
            /\ log[i].level = "info"
            /\ log[i].made = Len(detectors)
            /\ log[i].resource =
                 AttributesToMap(IntValues(
                   SelectSeq(merged, LAMBDA e : attributesToKeep = {}
                                                  \/ e.key \in attributesToKeep)))
            /\ \A j \in Records(FailedToDetect) \cup Records(BeganDetecting) : j < i
       /\ Cardinality(Records(DroppedResource)) <= 1
       /\ Records(DroppedResource) # {} <=>
            (attributesToKeep # {} /\ KeySet(merged) \ attributesToKeep # {})
       /\ \A i \in Records(DroppedResource) :
            /\ i = Len(log)
            /\ log[i].level = "info"
            /\ Range(log[i].keys) = KeySet(merged) \ attributesToKeep

C15_Witness ==
  /\ once = "done"
  /\ Len(log) = 4
  /\ log[2].msg = FailedToDetect
  /\ log[2].detector = 1
  /\ log[3].msg = DetectedResource
  /\ log[3].resource = {Attr("a", PlainScalar("int64", "2"))}
  /\ log[4].msg = DroppedResource
  /\ log[4].keys = <<"b">>

\* a caller that has called Get and has not got its result yet
InGet(c) == pc[c] \in {"blocked", "loop", "detecting", "finished"}

C12_BoundedByProviderTimeout ==
  \A i \in 1..Len(passed) :
    /\ passed[i].parent = runner
    /\ passed[i].timed
    /\ passed[i].deadline <= passed[i].since + timeout

\* the pass is over and every detector failed without a resource
AllFailedEmpty ==
  /\ once = "done"
  /\ Len(detectors) > 0
  /\ \A i \in 1..Len(results) : results[i].err
  /\ res = <<>>

\* C20: the context of the pass is the one derived from the context and the
\* client of the caller that entered once.Do first, every Detect call gets
\* that context and every Get returns the stored triple; only steps of that
\* caller change the pass, and once the pass is over neither the Detect
\* calls made, nor their results, nor the stored result change again
C20_FirstCallerDetermines ==
  /\ [](once # "idle" =>
          /\ runner \in Callers
          /\ ctx = WithTimeout(runner, args[runner].client.Timeout, ctx.since)
          /\ \A i \in 1..Len(passed) : passed[i] = ctx)
  /\ [](\A c \in Callers : Returned(c) => ret[c] = detectedResource[1])
  /\ [][(runner \in Callers /\ pc'[runner] = pc[runner]) =>
          UNCHANGED <<passVars, passed, ctx, runner, once, detectedResource>>]_vars
  /\ [][once = "done" =>
          UNCHANGED <<passVars, passed, ctx, runner, once, detectedResource>>]_vars

C20_Witness ==
  /\ AllFailedEmpty
  /\ Len(detectors) = MaxDetectors
  /\ runner \in cancelled
  /\ ctx.deadline = 0
  /\ \E c \in Callers :
       /\ c # runner
       /\ c \notin cancelled
       /\ args[c].client.Timeout = MaxTimeout
       /\ Returned(c)
       /\ Deref(ret[c].resource) = <<>>
       /\ ret[c] = ret[runner]

====
